---- MODULE Spec2Model ----
(***************************************************************************)
(* A model of sfe::rich_text (the markup tokenizer and the layout loop of  *)
(* rich_text::set_source), of the process-wide colour table and font       *)
(* cache it uses, and of the colour parsing helpers.                       *)
(*                                                                         *)
(* Code points are one-character strings, sf::String / std::string are     *)
(* sequences of them.  Floats that carry positions are kept in half        *)
(* pixels (a position of 3 is 1.5 px), so that std::roundf is a real       *)
(* conversion.  A 32 bit unsigned is kept as its four bytes, most          *)
(* significant first.                                                      *)
(*                                                                         *)
(* Specifications: Spec (toggles, escapes, run splitting), SpecErr (the    *)
(* failures of set_source and the font cache), SpecLayout (line advance),  *)
(* SpecColor (colour tags and add_color), SpecText (newlines and the text  *)
(* of the runs), SpecTag (repeated style tags, align tags, unknown tags,   *)
(* tags without a space) and SpecRerun (laying the same source out again). *)
(***************************************************************************)
EXTENDS Integers, Sequences, FiniteSets, TLC

VARIABLES
    _fonts,            \* static font cache: name -> TRUE (face loaded) / FALSE (empty sf::Font)
    _colors,           \* static colour table: name -> colour
    lambda_frame,      \* frame whose locals the static apply_formatting closure captured; "none" = not yet built
    exists,            \* a rich_text object has been constructed
    _source,           \* rich_text::_source
    _character_size,   \* rich_text::_character_size
    _texts,            \* rich_text::_texts, the positioned runs
    _bounds,           \* rich_text::_bounds
    pc,                \* "idle", "scan" (tokenizer loop), "layout" (layout loop), "crashed"
    frame,             \* stack frame of the running set_source
    it,                \* the scan iterator, a 1-based index into _source
    current_format,    \* the style cursor
    lines,             \* the local vector of lines
    li,                \* layout: index of the line being laid out
    ci,                \* layout: index of the chunk being laid out
    next_position,     \* layout: the pen
    line_spacing,      \* layout: largest line spacing of the current line so far
    err,               \* outcome of the last finished set_source
    prev,              \* what the last scan step read, and the style cursor and run style before it
    first,             \* the first successful layout of the process (recorded only when tracking)
    added              \* name -> the colour the latest add_color of that name registered

vars == <<_fonts, _colors, lambda_frame, exists, _source, _character_size, _texts,
          _bounds, pc, frame, it, current_format, lines, li, ci,
          next_position, line_spacing, err, prev, first, added>>

statics == <<_fonts, _colors, lambda_frame>>
locals  == <<it, current_format, lines, li, ci, next_position, line_spacing>>

(***************************************************************************)
(* Bounds of the model.                                                    *)
(***************************************************************************)
MaxPieces == 2      \* a source is a concatenation of at most this many markup pieces
MaxDigits == 8      \* hex colour tokens have at most this many digits
MaxCharSize == 2    \* character sizes 0..MaxCharSize are requested
MaxLayoutPieces == 3 \* pieces that follow the font tag of a layout source

\* The stack address of a set_source frame depends on the caller's depth.  The
\* closure only tells the address it captured from any other, so two stand for all.
Frames == {"here", "elsewhere"}

(***************************************************************************)
(* Sequence helpers.                                                       *)
(***************************************************************************)
Last(s) == s[Len(s)]

RECURSIVE Flatten(_)
Flatten(ss) == IF ss = <<>> THEN <<>> ELSE Head(ss) \o Flatten(Tail(ss))

\* All sequences over S of length at most n.
SeqsUpTo(S, n) == UNION {[1 .. k -> S] : k \in 0 .. n}

\* std::find(first, last, c) on the 1-based index range [from, to): index of the
\* first occurrence, or `to` when there is none.
RECURSIVE Find(_, _, _, _)
Find(s, from, to, c) ==
    IF from >= to THEN to
    ELSE IF s[from] = c THEN from
    ELSE Find(s, from + 1, to, c)

Max(a, b) == IF a >= b THEN a ELSE b

(***************************************************************************)
(* Words of the markup language.                                           *)
(***************************************************************************)
BSLASH == "\\"
NL == "\n"

W_fill_color == <<"f","i","l","l","-","c","o","l","o","r">>
W_outline_color == <<"o","u","t","l","i","n","e","-","c","o","l","o","r">>
W_outline_thickness == <<"o","u","t","l","i","n","e","-","t","h","i","c","k","n","e","s","s">>
W_font == <<"f","o","n","t">>
W_align == <<"a","l","i","g","n">>
W_left == <<"l","e","f","t">>
W_center == <<"c","e","n","t","e","r">>
W_right == <<"r","i","g","h","t">>

(***************************************************************************)
(* sf::Color, as <<r, g, b, a>>.                                           *)
(***************************************************************************)
White == <<255, 255, 255, 255>>
Black == <<0, 0, 0, 255>>
Red == <<255, 0, 0, 255>>
Green == <<0, 255, 0, 255>>
Blue == <<0, 0, 255, 255>>
Yellow == <<255, 255, 0, 255>>
Magenta == <<255, 0, 255, 255>>
Cyan == <<0, 255, 255, 255>>

\* The table _colors is seeded with.
DefaultColors ==
    ( <<"d","e","f","a","u","l","t">> :> White ) @@
    ( <<"b","l","a","c","k">> :> Black ) @@
    ( <<"b","l","u","e">> :> Blue ) @@
    ( <<"c","y","a","n">> :> Cyan ) @@
    ( <<"g","r","e","e","n">> :> Green ) @@
    ( <<"m","a","g","e","n","t","a">> :> Magenta ) @@
    ( <<"r","e","d">> :> Red ) @@
    ( <<"w","h","i","t","e">> :> White ) @@
    ( <<"y","e","l","l","o","w">> :> Yellow )

(***************************************************************************)
(* color_from_hex.  The argument is a 32 bit unsigned, <<b3, b2, b1, b0>>. *)
(***************************************************************************)
\* argb_hex |= 0xff000000 : the top byte becomes 0xff whatever it was.
OrOpaque(w) == <<255, w[2], w[3], w[4]>>

color_from_hex(argb_hex) ==
    LET x == OrOpaque(argb_hex)
    IN  <<x[2], x[3], x[4], x[1]>>

(***************************************************************************)
(* std::stoi(source, 0, 16), which is strtol with base 16 followed by a    *)
(* range check against int: leading white space is skipped, then an        *)
(* optional sign, an optional 0x / 0X, then the longest run of hex digits. *)
(* The result is a record: kind "invalid" (std::invalid_argument, no       *)
(* digit), "range" (std::out_of_range) or "ok" with the value converted to *)
(* unsigned, as four bytes.                                                *)
(***************************************************************************)
WhiteSpace == {" ", "\t", "\n", "\r", "\f"}

HexVal ==
    ( "0" :> 0 ) @@ ( "1" :> 1 ) @@ ( "2" :> 2 ) @@ ( "3" :> 3 ) @@ ( "4" :> 4 ) @@
    ( "5" :> 5 ) @@ ( "6" :> 6 ) @@ ( "7" :> 7 ) @@ ( "8" :> 8 ) @@ ( "9" :> 9 ) @@
    ( "a" :> 10 ) @@ ( "b" :> 11 ) @@ ( "c" :> 12 ) @@ ( "d" :> 13 ) @@ ( "e" :> 14 ) @@
    ( "f" :> 15 ) @@ ( "A" :> 10 ) @@ ( "B" :> 11 ) @@ ( "C" :> 12 ) @@ ( "D" :> 13 ) @@
    ( "E" :> 14 ) @@ ( "F" :> 15 )

IsHexDigit(c) == c \in DOMAIN HexVal

RECURSIVE SkipSpace(_, _)
SkipSpace(s, i) ==
    IF i <= Len(s) /\ s[i] \in WhiteSpace THEN SkipSpace(s, i + 1) ELSE i

\* Index one past the longest run of hex digits starting at i.
RECURSIVE DigitsEnd(_, _)
DigitsEnd(s, i) ==
    IF i <= Len(s) /\ IsHexDigit(s[i]) THEN DigitsEnd(s, i + 1) ELSE i

RECURSIVE StripZeros(_)
StripZeros(ds) ==
    IF ds # <<>> /\ Head(ds) = 0 THEN StripZeros(Tail(ds)) ELSE ds

\* The nibbles of s[from .. to-1], most significant first, without leading zeros.
Nibbles(s, from, to) == StripZeros([k \in 1 .. (to - from) |-> HexVal[s[from + k - 1]]])

\* Left-pad to eight nibbles and pack into four bytes.
Pack(ns) ==
    LET p == [k \in 1 .. (8 - Len(ns)) |-> 0] \o ns
    IN  [k \in 1 .. 4 |-> 16 * p[2 * k - 1] + p[2 * k]]

\* Two's complement of a 32 bit word given as four bytes.
Negate(w) ==
    LET hi == 256 * w[1] + w[2]
        lo == 256 * w[3] + w[4]
        nlo == (65536 - lo) % 65536
        nhi == IF lo = 0 THEN (65536 - hi) % 65536 ELSE 65535 - hi
    IN  <<nhi \div 256, nhi % 256, nlo \div 256, nlo % 256>>

stoi16(source) ==
    LET i0 == SkipSpace(source, 1)
        neg == i0 <= Len(source) /\ source[i0] = "-"
        i1 == IF i0 <= Len(source) /\ source[i0] \in {"+", "-"} THEN i0 + 1 ELSE i0
        \* 0x is a prefix only when a hex digit follows it
        pre == /\ i1 + 2 <= Len(source)
               /\ source[i1] = "0"
               /\ source[i1 + 1] \in {"x", "X"}
               /\ IsHexDigit(source[i1 + 2])
        i2 == IF pre THEN i1 + 2 ELSE i1
        e == DigitsEnd(source, i2)
        ns == Nibbles(source, i2, e)
        \* |value| > INT_MAX, or > 2^31 for a negative one
        big == \/ Len(ns) > 8
               \/ /\ Len(ns) = 8
                  /\ ns[1] >= 8
                  /\ ~(neg /\ ns = <<8, 0, 0, 0, 0, 0, 0, 0>>)
    IN  IF e = i2 THEN [kind |-> "invalid", val |-> <<>>]
        ELSE IF big THEN [kind |-> "range", val |-> <<>>]
        ELSE IF neg THEN [kind |-> "ok", val |-> Negate(Pack(ns))]
        ELSE [kind |-> "ok", val |-> Pack(ns)]

(***************************************************************************)
(* color_from_string: the table first, then the hex conversion; any        *)
(* exception of the conversion gives white.                                *)
(***************************************************************************)
color_from_string(source, colors) ==
    IF source \in DOMAIN colors THEN colors[source]
    ELSE LET n == stoi16(source)
         IN  IF n.kind = "ok" THEN color_from_hex(n.val) ELSE White

(***************************************************************************)
(* std::stof, for the decimal numerals the modelled sources contain: white *)
(* space, an optional sign, then the longest run of decimal digits (no     *)
(* fraction, exponent, inf or nan occurs in the modelled sources).         *)
(***************************************************************************)
IsDecDigit(c) == c \in {"0", "1", "2", "3", "4", "5", "6", "7", "8", "9"}

RECURSIVE DecEnd(_, _)
DecEnd(s, i) ==
    IF i <= Len(s) /\ IsDecDigit(s[i]) THEN DecEnd(s, i + 1) ELSE i

RECURSIVE DecValue(_, _, _)
DecValue(s, i, e) ==
    IF i >= e THEN 0 ELSE HexVal[s[e - 1]] + 10 * DecValue(s, i, e - 1)

stof(arg) ==
    LET i0 == SkipSpace(arg, 1)
        neg == i0 <= Len(arg) /\ arg[i0] = "-"
        i1 == IF i0 <= Len(arg) /\ arg[i0] \in {"+", "-"} THEN i0 + 1 ELSE i0
        e == DecEnd(arg, i1)
    IN  IF e = i1 THEN [kind |-> "invalid", val |-> 0]
        ELSE [kind |-> "ok", val |-> IF neg THEN 0 - DecValue(arg, i1, e) ELSE DecValue(arg, i1, e)]

(***************************************************************************)
(* format, chunk, line.  A font pointer is <<>> (nullptr) or <<name>>, the *)
(* address of the cache entry of that name.  style_flags is the set of the *)
(* sf::Text::Style bits that are set.                                      *)
(***************************************************************************)
NullFont == <<>>

DefaultFormat ==
    [font |-> NullFont, style_flags |-> {}, fill_color |-> White,
     outline_color |-> White, outline_thickness |-> 0]

NewChunk(fmt) == [format |-> fmt, text |-> <<>>]

NewLine(fmt) == [chunks |-> <<NewChunk(fmt)>>, alignment |-> "left"]

\* A toggle that only ever sets the bit (|= in place of ^=).
XorSetsBit(flags, bit) == flags \cup {bit}

\* style_flags ^= bit
Xor(flags, bit) == IF bit \in flags THEN flags \ {bit} ELSE flags \cup {bit}

ToggleChars == {"/", "*", "_", "~"}

StyleOf(c) ==
    CASE c = "/" -> "Italic"
      [] c = "*" -> "Bold"
      [] c = "_" -> "Underlined"
      [] c = "~" -> "StrikeThrough"

\* An escape switch that also accepts the closing bracket.
EscapableWithBracket == {"/", "*", "_", "~", "[", "]", BSLASH}

\* The code points a backslash may precede.
Escapable == {"/", "*", "_", "~", "[", BSLASH}

\* lines.back().chunks.back()
CurChunk(ls) == Last(Last(ls).chunks)

SetCurLine(ls, l) == [ls EXCEPT ![Len(ls)] = l]

\* An append that puts the code point in front of the run's text.
PrependText(ls, c) ==
    LET l == Last(ls)
        n == Len(l.chunks)
    IN  SetCurLine(ls, [l EXCEPT !.chunks[n].text = <<c>> \o @])

\* lines.back().chunks.back().text += c
AppendText(ls, c) ==
    LET l == Last(ls)
        n == Len(l.chunks)
    IN  SetCurLine(ls, [l EXCEPT !.chunks[n].text = Append(@, c)])

\* The body of the apply_formatting closure, on the lines and the style cursor
\* its captured references designate.
apply_formatting(ls, fmt) ==
    LET l == Last(ls)
        n == Len(l.chunks)
    IN  IF CurChunk(ls).text # <<>>
        THEN SetCurLine(ls, [l EXCEPT !.chunks = Append(@, NewChunk(fmt))])
        ELSE SetCurLine(ls, [l EXCEPT !.chunks[n].format = fmt])

(***************************************************************************)
(* The closure is a function-local static: it is built once, by the first  *)
(* call of set_source whose loop body runs, and keeps references to that   *)
(* call's locals.  In a frame at the same address the references designate *)
(* the running call's locals.  In a frame elsewhere they dangle: the       *)
(* closure reads and writes a dead frame, which leaves the running call's  *)
(* lines as they are, or ends the process.                                 *)
(***************************************************************************)
CallFormatting(ls, fmt, closure_frame, own_frame) ==
    IF closure_frame = own_frame
    THEN {[crash |-> FALSE, lines |-> apply_formatting(ls, fmt)]}
    ELSE {[crash |-> FALSE, lines |-> ls], [crash |-> TRUE, lines |-> ls]}

(***************************************************************************)
(* The font collaborator (sf::Font) and the text measurer (sf::Text).      *)
(* Lengths are in half pixels.  A cache entry whose load failed is an      *)
(* sf::Font without a face: every metric of it is 0.                       *)
(***************************************************************************)
F_f == <<"f">>
F_g == <<"g">>

\* sf::Font::loadFromFile succeeds for these files only.
Loadable == {F_f, F_g}

\* Line height of a font, in pixels per unit of character size.
LineHeight(name) == IF name = F_f THEN 2 ELSE 3

\* sf::Font::getLineSpacing: a whole number of pixels.
getLineSpacing(fonts, font, size) ==
    IF fonts[font[1]] THEN 2 * LineHeight(font[1]) * size ELSE 0

\* Advance of one glyph, half pixels per unit of character size.
GlyphAdvance(fonts, font, c) ==
    IF ~fonts[font[1]] THEN 0
    ELSE IF font[1] = F_f /\ c = "a" THEN 3
    ELSE 2

RECURSIVE TextAdvance(_, _, _, _)
TextAdvance(fonts, font, size, text) ==
    IF text = <<>> THEN 0
    ELSE GlyphAdvance(fonts, font, Head(text)) * size + TextAdvance(fonts, font, size, Tail(text))

\* std::roundf on a non-negative length: halves round away from zero.
roundf(v) == IF v % 2 = 0 THEN v ELSE v + 1

\* sf::Text::findCharacterPos(text.getSize()): the pen after the last glyph.
findCharacterPos(fonts, t) ==
    <<t.position[1] + TextAdvance(fonts, t.font, t.size, t.text), t.position[2]>>

\* sf::Text::getGlobalBounds: the glyph box, empty for an empty string.
getGlobalBounds(fonts, t) ==
    [left |-> t.position[1], top |-> t.position[2],
     width |-> TextAdvance(fonts, t.font, t.size, t.text),
     height |-> IF t.text = <<>> THEN 0 ELSE getLineSpacing(fonts, t.font, t.size)]

ZeroRect == [left |-> 0, top |-> 0, width |-> 0, height |-> 0]

\* The sf::Text the layout loop builds for a chunk at the pen.
MakeText(chunk, size, pos) ==
    [text |-> chunk.text, font |-> chunk.format.font, size |-> size,
     style |-> chunk.format.style_flags, fill_color |-> chunk.format.fill_color,
     outline_color |-> chunk.format.outline_color,
     outline_thickness |-> chunk.format.outline_thickness,
     position |-> <<roundf(pos[1]), roundf(pos[2])>>]

\* An extension that takes the edges of the latest text (no std::max).
ExtendBoundsToLatest(b, tb) ==
    [b EXCEPT !.width = (tb.left + tb.width) - b.left,
              !.height = (tb.top + tb.height) - b.top]

\* _bounds after it is extended by the global bounds tb of one text.
ExtendBounds(b, tb) ==
    [b EXCEPT !.width = Max(@, (tb.left + tb.width) - b.left),
              !.height = Max(@, (tb.top + tb.height) - b.top)]

(***************************************************************************)
(* One iteration of the scan loop of set_source, as the set of its         *)
(* outcomes: "go" (the loop goes on behind the code points consumed),      *)
(* "throw" (an exception leaves set_source) or "crash".                    *)
(***************************************************************************)
Go(fmt, ls, nxt, fonts) ==
    [kind |-> "go", fmt |-> fmt, lines |-> ls, it |-> nxt, fonts |-> fonts, err |-> "none"]

Throw(e, fmt, ls, nxt, fonts) ==
    [kind |-> "throw", fmt |-> fmt, lines |-> ls, it |-> nxt, fonts |-> fonts, err |-> e]

Crash(fmt, ls, nxt, fonts) ==
    [kind |-> "crash", fmt |-> fmt, lines |-> ls, it |-> nxt, fonts |-> fonts, err |-> "none"]

\* The style cursor has been set to fmt; apply_formatting() is called.
Formatted(fmt, ls, nxt, fonts, cf, f) ==
    { IF r.crash THEN Crash(fmt, ls, nxt, fonts) ELSE Go(fmt, r.lines, nxt, fonts) :
        r \in CallFormatting(ls, fmt, cf, f) }

\* case '/', '*', '_', '~'
ToggleStep(s, i, fmt, ls, fonts, cf, f) ==
    Formatted([fmt EXCEPT !.style_flags = Xor(@, StyleOf(s[i]))], ls, i + 1, fonts, cf, f)

\* _fonts.try_emplace(arg) and, on a cache miss, loadFromFile(arg): the cache
\* afterwards.  The entry is inserted before the load and stays when it fails.
FontCacheAfter(fonts, arg) ==
    IF arg \in DOMAIN fonts THEN fonts ELSE (arg :> (arg \in Loadable)) @@ fonts

\* The font tag throws on a cache miss whose load fails.
FontTagThrows(fonts, arg) == arg \notin DOMAIN fonts /\ arg \notin Loadable

\* The tag whose '[' is at index i: the index of its ']' (Len(s) + 1 when there
\* is none), the index behind its command, its command and its argument.
\* toAnsiString() maps every code point of the modelled sources (all of them
\* ASCII) to the char of the same value.
TagEnd(s, i) == Find(s, i + 1, Len(s) + 1, "]")
CommandEnd(s, i) == Find(s, i + 1, TagEnd(s, i), " ")
TagCommand(s, i) == SubSeq(s, i + 1, CommandEnd(s, i) - 1)
TagArg(s, i) == SubSeq(s, CommandEnd(s, i) + 1, TagEnd(s, i) - 1)

\* An alignment that is stored in the first line (lines.front()).
SetAlignmentOfFirstLine(ls, a) == [ls EXCEPT ![1] = [@ EXCEPT !.alignment = a]]

\* lines.back().alignment = a
SetAlignment(ls, a) == SetCurLine(ls, [Last(ls) EXCEPT !.alignment = a])

\* A tag of an unknown command that is taken as text: its '[' is appended and the
\* scan goes on behind it.
UnknownTagAsText(s, i, fmt, ls, nxt, fonts) == {Go(fmt, AppendText(ls, s[i]), i + 1, fonts)}

\* No branch of the if-chain matches the command: the tag is skipped.
UnknownTag(s, i, fmt, ls, nxt, fonts) == {Go(fmt, ls, nxt, fonts)}

\* case '[': the tag starts at index i.
TagStep(s, i, fmt, ls, fonts, colors, cf, f) ==
    LET tag_end == TagEnd(s, i)
        command_end == CommandEnd(s, i)
        command == TagCommand(s, i)
        arg == TagArg(s, i)
        nxt == tag_end + 1
    IN  IF tag_end = Len(s) + 1 THEN {Throw("MissingBracket", fmt, ls, i, fonts)}
        ELSE IF command_end + 1 > tag_end
        THEN \* fromUtf32(command_end + 1, tag_end) on a range whose begin lies
             \* behind its end: std::length_error, or the process ends
             {Throw("LengthError", fmt, ls, i, fonts), Crash(fmt, ls, i, fonts)}
        ELSE IF command = W_fill_color
        THEN Formatted([fmt EXCEPT !.fill_color = color_from_string(arg, colors)],
                       ls, nxt, fonts, cf, f)
        ELSE IF command = W_outline_color
        THEN Formatted([fmt EXCEPT !.outline_color = color_from_string(arg, colors)],
                       ls, nxt, fonts, cf, f)
        ELSE IF command = W_outline_thickness
        THEN IF stof(arg).kind # "ok"
             THEN {Throw("InvalidNumber", fmt, ls, i, fonts)}
             ELSE Formatted([fmt EXCEPT !.outline_thickness = stof(arg).val],
                            ls, nxt, fonts, cf, f)
        ELSE IF command = W_font
        THEN IF FontTagThrows(fonts, arg)
             THEN {Throw("FontLoad", fmt, ls, i, FontCacheAfter(fonts, arg))}
             ELSE Formatted([fmt EXCEPT !.font = <<arg>>], ls, nxt,
                            FontCacheAfter(fonts, arg), cf, f)
        ELSE IF command = W_align
        THEN IF arg = W_left
             THEN {Go(fmt, SetAlignment(ls, "left"), nxt, fonts)}
             ELSE IF arg = W_center
             THEN {Go(fmt, SetAlignment(ls, "center"), nxt, fonts)}
             ELSE IF arg = W_right
             THEN {Go(fmt, SetAlignment(ls, "right"), nxt, fonts)}
             ELSE {Throw("InvalidAlignment", fmt, ls, i, fonts)}
        ELSE UnknownTag(s, i, fmt, ls, nxt, fonts)

\* case '\\': the backslash is at index i.
EscapeStep(s, i, fmt, ls, fonts) ==
    IF i + 1 > Len(s) THEN {Throw("InvalidEscape", fmt, ls, i, fonts)}
    ELSE IF s[i + 1] \in Escapable THEN {Go(fmt, AppendText(ls, s[i + 1]), i + 2, fonts)}
    ELSE {Throw("InvalidEscape", fmt, ls, i, fonts)}

\* A newline whose line starts in the default style, not in the cursor's.
NewlineStepDefaultStyle(s, i, fmt, ls, fonts) ==
    {Go(fmt, Append(ls, NewLine(DefaultFormat)), i + 1, fonts)}

\* case '\n'
NewlineStep(s, i, fmt, ls, fonts) == {Go(fmt, Append(ls, NewLine(fmt)), i + 1, fonts)}

\* default
TextStep(s, i, fmt, ls, fonts) == {Go(fmt, AppendText(ls, s[i]), i + 1, fonts)}

\* The switch on *it.
ScanStep(s, i, fmt, ls, fonts, colors, cf, f) ==
    IF s[i] \in ToggleChars THEN ToggleStep(s, i, fmt, ls, fonts, cf, f)
    ELSE IF s[i] = "[" THEN TagStep(s, i, fmt, ls, fonts, colors, cf, f)
    ELSE IF s[i] = BSLASH THEN EscapeStep(s, i, fmt, ls, fonts)
    ELSE IF s[i] = NL THEN NewlineStep(s, i, fmt, ls, fonts)
    ELSE TextStep(s, i, fmt, ls, fonts)

(***************************************************************************)
(* The state between calls.                                                *)
(***************************************************************************)
NoPrev == [c |-> "", at |-> 0, fmt |-> DefaultFormat, chunk |-> DefaultFormat]

NoRun(st) ==
    [state |-> st, source |-> <<>>, size |-> 0, colors |-> DefaultColors,
     texts |-> <<>>, bounds |-> ZeroRect]

\* The locals of set_source are gone.
LocalsGone ==
    /\ it' = 1
    /\ current_format' = DefaultFormat
    /\ lines' = <<>>
    /\ li' = 1
    /\ ci' = 1
    /\ next_position' = <<0, 0>>
    /\ line_spacing' = 0
    /\ frame' = "none"
    /\ prev' = NoPrev

InitWith(tracking) ==
    /\ _fonts = <<>>
    /\ _colors = DefaultColors
    /\ lambda_frame = "none"
    /\ exists = FALSE
    /\ _source = <<>>
    /\ _character_size = 1
    /\ _texts = <<>>
    /\ _bounds = ZeroRect
    /\ pc = "idle"
    /\ frame = "none"
    /\ it = 1
    /\ current_format = DefaultFormat
    /\ lines = <<>>
    /\ li = 1
    /\ ci = 1
    /\ next_position = <<0, 0>>
    /\ line_spacing = 0
    /\ err = "none"
    /\ prev = NoPrev
    /\ first = NoRun(IF tracking THEN "none" ELSE "off")
    /\ added = <<>>

Init == InitWith(FALSE)

(***************************************************************************)
(* rich_text::clear and the head of set_source, up to the scan loop.       *)
(***************************************************************************)
\* A clear() that leaves the runs in place.
keep_texts(texts) == texts

\* clear(): _texts.clear(); _bounds = sf::FloatRect{}
clear_texts(texts) == <<>>

\* set_source(source) in the frame f.
Start(source, f) ==
    /\ _source' = source
    /\ _texts' = clear_texts(_texts)
    /\ _bounds' = ZeroRect
    /\ current_format' = DefaultFormat
    /\ lines' = <<NewLine(DefaultFormat)>>
    /\ it' = 1
    /\ li' = 1
    /\ ci' = 1
    /\ next_position' = <<0, 0>>
    /\ line_spacing' = 0
    /\ pc' = IF source = <<>> THEN "layout" ELSE "scan"
    /\ frame' = f
    /\ err' = "none"
    /\ prev' = NoPrev
    /\ UNCHANGED <<statics, first, added>>

\* rich_text::rich_text(source, character_size)
Construct(source, size, f) ==
    /\ pc = "idle"
    /\ _character_size' = size
    /\ exists' = FALSE
    /\ Start(source, f)

\* rich_text::set_source(source), called from outside
SetSource(source, f) ==
    /\ pc = "idle"
    /\ exists
    /\ UNCHANGED <<_character_size, exists>>
    /\ Start(source, f)

\* rich_text::set_character_size(size)
SetCharacterSize(size, f) ==
    /\ pc = "idle"
    /\ exists
    /\ _character_size' = Max(size, 1)
    /\ UNCHANGED exists
    /\ Start(_source, f)

\* A registration that keeps an existing entry (insert in place of operator[]=).
ColorsKeepExisting(colors, name, color) == colors @@ (name :> color)

\* _colors[name] = color
ColorsWith(colors, name, color) == (name :> color) @@ colors

\* rich_text::add_color(name, color)
AddColor(name, color) ==
    /\ pc = "idle"
    /\ _colors' = ColorsWith(_colors, name, color)
    /\ added' = (name :> color) @@ added
    /\ UNCHANGED <<_fonts, lambda_frame, exists, _source, _character_size, _texts, _bounds,
                   pc, frame, locals, err, prev, first>>

\* rich_text::add_color(name, argb_hex)
AddColorHex(name, argb_hex) == AddColor(name, color_from_hex(argb_hex))

(***************************************************************************)
(* An exception leaves set_source: the locals are destroyed, the members   *)
(* stay as they are.  Out of the constructor, no object comes to exist     *)
(* and its members are destroyed with it.                                  *)
(***************************************************************************)
Raise(e) ==
    /\ pc' = "idle"
    /\ err' = e
    /\ LocalsGone
    /\ IF exists
       THEN UNCHANGED <<_source, _character_size, _texts, _bounds>>
       ELSE /\ _source' = <<>>
            /\ _character_size' = 1
            /\ _texts' = <<>>
            /\ _bounds' = ZeroRect
    /\ UNCHANGED <<_colors, exists, first, added>>

(***************************************************************************)
(* One iteration of the scan loop.  The closure is built by the first      *)
(* iteration the process ever runs.                                        *)
(***************************************************************************)
Scan ==
    /\ pc = "scan"
    /\ it <= Len(_source)
    /\ LET cf == IF lambda_frame = "none" THEN frame ELSE lambda_frame
       IN  \E o \in ScanStep(_source, it, current_format, lines, _fonts, _colors, cf, frame) :
             /\ lambda_frame' = cf
             /\ _fonts' = o.fonts
             /\ IF o.kind = "throw" THEN Raise(o.err)
                ELSE /\ pc' = IF o.kind = "crash" THEN "crashed"
                              ELSE IF o.it > Len(_source) THEN "layout" ELSE "scan"
                     /\ current_format' = o.fmt
                     /\ lines' = o.lines
                     /\ it' = o.it
                     /\ prev' = [c |-> _source[it], at |-> it, fmt |-> current_format,
                                 chunk |-> CurChunk(lines).format]
                     /\ UNCHANGED <<_colors, exists, _source, _character_size, _texts,
                                    _bounds, frame, li, ci, next_position,
                                    line_spacing, err, first, added>>

(***************************************************************************)
(* The layout loop, one chunk or one end of line at a time.                *)
(***************************************************************************)
\* What the first successful call of the process laid out.
Recorded(f, source, size, colors, texts, bounds) ==
    IF f.state = "none"
    THEN [state |-> "set", source |-> source, size |-> size, colors |-> colors,
          texts |-> texts, bounds |-> bounds]
    ELSE f

\* A line advance that does not return the pen to the left edge.
NextLineKeepsX(pos, spacing) == <<pos[1], pos[2] + spacing>>

\* The pen at the start of the next line.
NextLinePosition(pos, spacing) == <<0, pos[2] + spacing>>

\* chunk.format.font == nullptr
MissingFont(chunk) == chunk.format.font = NullFont

Layout ==
    /\ pc = "layout"
    /\ IF ci <= Len(lines[li].chunks)
       THEN LET chunk == lines[li].chunks[ci]
                t == MakeText(chunk, _character_size, next_position)
            IN  IF MissingFont(chunk)
                THEN Raise("MissingFont") /\ UNCHANGED <<_fonts, lambda_frame>>
                ELSE /\ line_spacing' = Max(line_spacing,
                                            getLineSpacing(_fonts, chunk.format.font, _character_size))
                     /\ _texts' = Append(_texts, t)
                     /\ next_position' = findCharacterPos(_fonts, t)
                     /\ _bounds' = ExtendBounds(_bounds, getGlobalBounds(_fonts, t))
                     /\ ci' = ci + 1
                     /\ UNCHANGED <<statics, exists, _source, _character_size, pc,
                                    frame, it, current_format, lines, li, err, prev, first,
                                    added>>
       ELSE IF li < Len(lines)
       THEN /\ next_position' = NextLinePosition(next_position, line_spacing)
            /\ li' = li + 1
            /\ ci' = 1
            /\ line_spacing' = 0
            /\ UNCHANGED <<statics, exists, _source, _character_size, _texts, _bounds, pc,
                           frame, it, current_format, lines, err, prev, first, added>>
       ELSE /\ pc' = "idle"
            /\ err' = "none"
            /\ exists' = TRUE
            /\ first' = Recorded(first, _source, _character_size, _colors, _texts, _bounds)
            /\ LocalsGone
            /\ UNCHANGED <<statics, _source, _character_size, _texts, _bounds, added>>

(***************************************************************************)
(* Markup sources.  A source is a concatenation of pieces; each            *)
(* specification draws its sources from the pieces its claims are about.   *)
(***************************************************************************)
Tag(cmd, arg) == <<"[">> \o cmd \o <<" ">> \o arg \o <<"]">>

SourcesOf(pieces, n) == {Flatten(ps) : ps \in SeqsUpTo(pieces, n)}

N_red == <<"r","e","d">>
N_bad == <<"b","a","d">>

\* The examples of the specification's section 8.
Ex_bold == <<"*","*","b","o","l","d","*","*">>
Ex_literal == <<BSLASH,"*","l","i","t","e","r","a","l","*">>
Ex_unterminated == <<"a","b","c"," ","[","f","o","n","t"," ","x">>
Ex_red_hi == Tag(W_fill_color, N_red) \o <<"h","i">>
Ex_two_lines == Tag(W_font, F_f) \o <<"a", NL, "b">>

\* Escapes of the two brackets.
Ex_escaped_open == <<BSLASH, "[", "a">>
Ex_escaped_close == <<"a", BSLASH, "]">>

Examples ==
    {Ex_bold, Ex_literal, Ex_unterminated, Ex_red_hi, Ex_two_lines, Ex_escaped_open,
     Ex_escaped_close}

\* Toggles, escapes, text, newlines and a font tag.
Pieces ==
    { <<"*">>, <<"/">>, <<"_">>, <<"~">>, <<"a">>, <<BSLASH>>, <<NL>>, Tag(W_font, F_f) }

Sources == SourcesOf(Pieces, MaxPieces) \cup Examples

\* One object is constructed (again after a constructor that threw) and then
\* given new sources.
Next ==
    \/ \E s \in Sources, f \in Frames : ~exists /\ Construct(s, 1, f)
    \/ \E s \in Sources, f \in Frames : SetSource(s, f)
    \/ \E f \in Frames : SetCharacterSize(_character_size, f)
    \/ Scan
    \/ Layout

Spec == Init /\ [][Next]_vars

(***************************************************************************)
(* Claims checked under Spec.                                              *)
(***************************************************************************)
\* The scan loop is about to read the code point c.
Reading(c) == pc = "scan" /\ it <= Len(_source) /\ _source[it] = c

\* The scan loop is about to read the second of two adjacent, equal toggle
\* characters, the first of which was read as a toggle.
DoubleToggle ==
    /\ pc = "scan"
    /\ it <= Len(_source)
    /\ _source[it] \in {"/", "*", "_", "~"}
    /\ prev.c = _source[it]
    /\ prev.at = it - 1

\* C2: the second of two consecutive unescaped occurrences of a toggle character
\* leaves the style cursor as it was before the first, and the run that takes the
\* following text has the style of the run that was current before the first; in
\* "**bold**" the text "bold" is never in a bold run.
C2_DoubleToggleCancels ==
    [][ /\ DoubleToggle =>
            /\ current_format' = prev.fmt
            /\ (pc' # "crashed" => CurChunk(lines').format = prev.chunk)
        /\ (_source' = Ex_bold /\ pc' \in {"scan", "layout"} /\ CurChunk(lines').text # <<>>)
              => "Bold" \notin CurChunk(lines').format.style_flags
      ]_vars

\* C2 witness: "**bold**" scanned up to the closing "**", with "bold" in a run that
\* is not bold.
C2_Witness ==
    /\ _source = Ex_bold
    /\ pc = "scan"
    /\ it = 7
    /\ CurChunk(lines).text = <<"b","o","l","d">>
    /\ CurChunk(lines).format = DefaultFormat
    /\ current_format = DefaultFormat

\* The lines ls2 are the lines ls1 with the code point x appended to the text of the
\* last run of the last line, and nothing else changed.
OnlyAppended(ls1, ls2, x) ==
    /\ Len(ls2) = Len(ls1)
    /\ \A k \in 1 .. Len(ls1) - 1 : ls2[k] = ls1[k]
    /\ Last(ls2).alignment = Last(ls1).alignment
    /\ Len(Last(ls2).chunks) = Len(Last(ls1).chunks)
    /\ \A k \in 1 .. Len(Last(ls1).chunks) - 1 : Last(ls2).chunks[k] = Last(ls1).chunks[k]
    /\ CurChunk(ls2).format = CurChunk(ls1).format
    /\ CurChunk(ls2).text = Append(CurChunk(ls1).text, x)

\* C3: a backslash read by the scan loop, followed by one of / * _ ~ [ \, appends
\* that code point to the current run and changes nothing else; followed by any
\* other code point, or by the end of the input, it makes set_source fail with the
\* invalid-escape error.
C3_Escape ==
    [][ Reading(BSLASH) =>
          IF it < Len(_source) /\ _source[it + 1] \in {"/", "*", "_", "~", "[", BSLASH}
          THEN /\ OnlyAppended(lines, lines', _source[it + 1])
               /\ current_format' = current_format
               /\ it' = it + 2
               /\ pc' \in {"scan", "layout"}
               /\ err' = "none"
          ELSE /\ pc' = "idle"
               /\ err' = "InvalidEscape"
      ]_vars

\* C3 witness: the "\*" of "\*literal*" has been read: the run holds "*" and the
\* style cursor is not bold.
C3_Witness ==
    /\ _source = Ex_literal
    /\ pc = "scan"
    /\ it = 3
    /\ prev.c = BSLASH
    /\ CurChunk(lines).text = <<"*">>
    /\ current_format = DefaultFormat

\* The scan loop is about to read a toggle or a style tag.
AtStyleChange ==
    /\ pc = "scan"
    /\ it <= Len(_source)
    /\ \/ _source[it] \in {"/", "*", "_", "~"}
       \/ /\ _source[it] = "["
          /\ TagEnd(_source, it) <= Len(_source)
          /\ TagCommand(_source, it) \in
               {W_fill_color, W_outline_color, W_outline_thickness, W_font}

\* C5 (as claimed): a toggle or style tag applied while the current run has no
\* text overwrites that run's style in place and adds no run; applied while the
\* current run has text it appends exactly one empty run with the updated style.
C5_RunSplitting ==
    [][ (AtStyleChange /\ pc' \in {"scan", "layout"}) =>
          /\ Len(lines') = Len(lines)
          /\ \A k \in 1 .. Len(lines) - 1 : lines'[k] = lines[k]
          /\ IF CurChunk(lines).text = <<>>
             THEN /\ Len(Last(lines').chunks) = Len(Last(lines).chunks)
                  /\ CurChunk(lines') = [format |-> current_format', text |-> <<>>]
             ELSE /\ Last(lines').chunks =
                        Append(Last(lines).chunks, [format |-> current_format', text |-> <<>>])
      ]_vars

(***************************************************************************)
(* SpecErr: sources made of the pieces that make set_source fail.          *)
(***************************************************************************)
ErrPieces ==
    { <<"a">>, <<"[">>, <<BSLASH>>, <<NL>>, Tag(W_font, F_f), Tag(W_font, N_bad),
      Tag(W_outline_thickness, <<"x">>), Tag(W_align, <<"u","p">>) }

ErrSources == SourcesOf(ErrPieces, MaxPieces) \cup {Ex_unterminated}

NextErr ==
    \/ \E s \in ErrSources, f \in Frames : ~exists /\ Construct(s, 1, f)
    \/ \E s \in ErrSources, f \in Frames : SetSource(s, f)
    \/ \E f \in Frames : SetCharacterSize(_character_size, f)
    \/ Scan
    \/ Layout

SpecErr == Init /\ [][NextErr]_vars

\* The failures the claim lists.
ListedErrors ==
    {"MissingBracket", "InvalidEscape", "InvalidAlignment", "InvalidNumber", "FontLoad",
     "MissingFont"}

\* C4: after a set_source that failed (missing ']', invalid escape, invalid
\* alignment, unparseable outline thickness, font load failure, missing font) the
\* object holds no positioned run and zero bounds; "abc [font x" fails with the
\* unterminated-tag error.
C4_RejectedAsAWhole ==
    /\ (pc = "idle" /\ err \in ListedErrors) => (_texts = <<>> /\ _bounds = ZeroRect)
    /\ (pc = "idle" /\ exists /\ _source = Ex_unterminated) => err = "MissingBracket"

\* C4 witness: an object that had laid out a source has rejected "abc [font x".
C4_Witness ==
    /\ pc = "idle"
    /\ exists
    /\ _source = Ex_unterminated
    /\ err = "MissingBracket"
    /\ _texts = <<>>

\* The scan loop is about to read a terminated tag with the command cmd and an
\* argument.
AtTag(cmd) ==
    /\ Reading("[")
    /\ TagEnd(_source, it) <= Len(_source)
    /\ CommandEnd(_source, it) < TagEnd(_source, it)
    /\ TagCommand(_source, it) = cmd

\* C10 (as claimed): every font tag whose identifier the resolver cannot load makes
\* set_source fail with the font-load error, on the first and on every later
\* reference.
C10_UnloadableFontFails ==
    [][ (AtTag(W_font) /\ TagArg(_source, it) \notin Loadable)
          => (pc' = "idle" /\ err' = "FontLoad") ]_vars

\* Some code point of text (an ordinary code point or an escaped one) stands in
\* s at or behind index i before any font tag.
RECURSIVE TextBeforeFontFrom(_, _)
TextBeforeFontFrom(s, i) ==
    IF i > Len(s) THEN FALSE
    ELSE IF s[i] \in {"/", "*", "_", "~", NL} THEN TextBeforeFontFrom(s, i + 1)
    ELSE IF s[i] = "["
    THEN IF TagEnd(s, i) > Len(s) \/ TagCommand(s, i) = W_font THEN FALSE
         ELSE TextBeforeFontFrom(s, TagEnd(s, i) + 1)
    ELSE TRUE

TextBeforeFont(s) == TextBeforeFontFrom(s, 1)

\* C11 (as claimed): set_source fails with the missing-font error only if some code
\* point of text is appended to a run before any font tag was applied (so not for the
\* empty string, nor when only newlines precede the first font tag), and it does
\* fail with that error whenever such a source has been scanned to its end.
C11_MissingFontIffTextBeforeFont ==
    [][ /\ (pc = "layout" /\ pc' = "idle" /\ err' = "MissingFont") => TextBeforeFont(_source)
        /\ (pc = "layout" /\ li = 1 /\ ci = 1 /\ TextBeforeFont(_source))
              => (pc' = "idle" /\ err' = "MissingFont")
      ]_vars

(***************************************************************************)
(* SpecLayout: sources that select a font and then mix text, newlines and  *)
(* a second font, at several character sizes.                              *)
(***************************************************************************)
LayoutPieces == { <<"a">>, <<NL>>, Tag(W_font, F_g) }

LayoutSources ==
    {Tag(W_font, F_f) \o s : s \in SourcesOf(LayoutPieces, MaxLayoutPieces)} \cup {Ex_two_lines}

CharSizes == 0 .. MaxCharSize

NextLayout ==
    \/ \E s \in LayoutSources, n \in CharSizes, f \in Frames : Construct(s, n, f)
    \/ \E n \in CharSizes, f \in Frames : SetCharacterSize(n, f)
    \/ Scan
    \/ Layout

SpecLayout == Init /\ [][NextLayout]_vars

\* Index in _texts of the first run of line k.
RECURSIVE FirstRun(_)
FirstRun(k) == IF k = 1 THEN 1 ELSE FirstRun(k - 1) + Len(lines[k - 1].chunks)

\* The first run of line k has been placed.
Placed(k) == k < li \/ (k = li /\ ci > 1)

\* The largest line spacing the fonts of the runs of line k report.
RECURSIVE MaxSpacingUpTo(_, _)
MaxSpacingUpTo(k, n) ==
    IF n = 0 THEN 0
    ELSE Max(MaxSpacingUpTo(k, n - 1),
             getLineSpacing(_fonts, lines[k].chunks[n].format.font, _character_size))

LineMaxSpacing(k) == MaxSpacingUpTo(k, Len(lines[k].chunks))

\* Every run of the last line has been placed.
LayoutDone == pc = "layout" /\ li = Len(lines) /\ ci > Len(lines[li].chunks)

\* C6: the first run of every line after the first is at x = 0 and at the y of the
\* previous line plus the largest line spacing of the previous line's fonts; the
\* pen does not advance after the last line; "a\nb" under one font gives two lines
\* with the second at (0, line spacing).
C6_LineAdvance ==
    pc = "layout" =>
        /\ \A k \in 2 .. Len(lines) :
              Placed(k) =>
                  _texts[FirstRun(k)].position =
                      <<0, _texts[FirstRun(k - 1)].position[2] + LineMaxSpacing(k - 1)>>
        /\ LayoutDone => next_position[2] = _texts[FirstRun(li)].position[2]
        /\ (LayoutDone /\ _source = Ex_two_lines) =>
              /\ Len(lines) = 2
              /\ Len(_texts) = 2
              /\ _texts[2].position = <<0, 2 * LineHeight(F_f) * _character_size>>

\* C6 witness: a first line with a run in each font, and the first run of the
\* second line placed under the taller of the two, at character size 2.
C6_Witness ==
    /\ pc = "layout"
    /\ _character_size = 2
    /\ li = 2
    /\ ci = 2
    /\ Len(lines[1].chunks) = 2
    /\ lines[1].chunks[1].format.font = <<F_f>>
    /\ lines[1].chunks[1].text = <<"a">>
    /\ lines[1].chunks[2].format.font = <<F_g>>
    /\ _texts[3].position = <<0, 12>>

\* The right and the bottom edge of a positioned run.
RightEdge(t) == getGlobalBounds(_fonts, t).left + getGlobalBounds(_fonts, t).width
BottomEdge(t) == getGlobalBounds(_fonts, t).top + getGlobalBounds(_fonts, t).height

\* The largest right (bottom) edge among the first n of the runs ts; 0 for none.
RECURSIVE MaxRight(_, _)
MaxRight(ts, n) == IF n = 0 THEN 0 ELSE Max(MaxRight(ts, n - 1), RightEdge(ts[n]))

RECURSIVE MaxBottom(_, _)
MaxBottom(ts, n) == IF n = 0 THEN 0 ELSE Max(MaxBottom(ts, n - 1), BottomEdge(ts[n]))

\* C12: when set_source returns normally the bounds have left = 0 and top = 0, a
\* width equal to the largest right edge and a height equal to the largest bottom
\* edge of the positioned runs; while runs are laid out, width and height never
\* decrease.
C12_Bounds ==
    [][ /\ (pc = "layout" /\ pc' = "idle" /\ err' = "none") =>
              /\ _bounds'.left = 0
              /\ _bounds'.top = 0
              /\ _bounds'.width = MaxRight(_texts', Len(_texts'))
              /\ _bounds'.height = MaxBottom(_texts', Len(_texts'))
        /\ (pc = "layout" /\ pc' = "layout") =>
              /\ _bounds'.width >= _bounds.width
              /\ _bounds'.height >= _bounds.height
      ]_vars

\* C12 witness: a layout has returned whose last run ends left of the bounds' right
\* edge and whose first run ends above the bounds' bottom edge.
C12_Witness ==
    /\ pc = "idle"
    /\ exists
    /\ err = "none"
    /\ Len(_texts) >= 2
    /\ RightEdge(Last(_texts)) < _bounds.width
    /\ BottomEdge(_texts[1]) < _bounds.height
    /\ _bounds.width = MaxRight(_texts, Len(_texts))

(***************************************************************************)
(* SpecColor: colour tags over hex tokens and names, with registrations.   *)
(***************************************************************************)
HexTokens == UNION {[1 .. k -> {"0", "f"}] : k \in 1 .. MaxDigits}

N_beige == <<"b","e","i","g","e">>
N_00ff00 == <<"0","0","f","f","0","0">>

OtherTokens ==
    { <<>>, N_beige, N_red, <<"z">>, <<"f","f","0","0","0","0","z">>,
      <<"4","0","f","f","0","0","0","0">>, <<"8","0","f","f","0","0","0","0">>,
      <<"0","x","f","f","0","0","0","0">>, <<"-","1">>, <<" ","f","f","0","0","0","0">> }

ColorSources ==
    {Tag(W_fill_color, a) : a \in HexTokens \cup OtherTokens}
        \cup {Tag(W_outline_color, a) : a \in OtherTokens \cup {N_00ff00}}

Teal == <<0, 128, 128, 64>>

NextColor ==
    \/ \E s \in ColorSources, f \in Frames : Construct(s, 1, f)
    \/ \E n \in {N_red, N_00ff00} : AddColor(n, Teal)
    \/ \E n \in {N_red, N_00ff00} : AddColorHex(n, <<128, 1, 2, 3>>)
    \/ Scan
    \/ Layout

SpecColor == Init /\ [][NextColor]_vars

\* C7: after add_color(name, c) a fill-color or outline-color tag whose argument is
\* exactly name sets the colour to the value registered last for the name, also
\* for a seeded palette name and for a name that reads as a hex literal.
C7_RegisteredColorWins ==
    [][ /\ (AtTag(W_fill_color) /\ TagArg(_source, it) \in DOMAIN added)
              => current_format'.fill_color = added[TagArg(_source, it)]
        /\ (AtTag(W_outline_color) /\ TagArg(_source, it) \in DOMAIN added)
              => current_format'.outline_color = added[TagArg(_source, it)]
      ]_vars

\* C7 witness: "00ff00" was registered twice, last as teal, and a fill-color tag
\* naming it has set the cursor to teal, not to the green the literal reads as.
C7_Witness ==
    /\ pc = "layout"
    /\ _source = Tag(W_fill_color, N_00ff00)
    /\ N_00ff00 \in DOMAIN added
    /\ added[N_00ff00] = Teal
    /\ _colors[N_00ff00] = Teal
    /\ current_format.fill_color = Teal

\* Exactly 6 or 8 hex digits.
WellFormedHex(a) == Len(a) \in {6, 8} /\ \A k \in 1 .. Len(a) : IsHexDigit(a[k])

\* The byte the two hex digits at k and k + 1 denote.
ByteAt(a, k) == 16 * HexVal[a[k]] + HexVal[a[k + 1]]

\* C8 (as claimed): a colour argument that is neither a registered name nor a
\* well-formed hex literal resolves to opaque white and never makes set_source fail.
C8_LenientColor ==
    [][ /\ (AtTag(W_fill_color) /\ TagArg(_source, it) \notin DOMAIN _colors
              /\ ~WellFormedHex(TagArg(_source, it)))
              => (current_format'.fill_color = White /\ pc' # "idle")
        /\ (AtTag(W_outline_color) /\ TagArg(_source, it) \notin DOMAIN _colors
              /\ ~WellFormedHex(TagArg(_source, it)))
              => (current_format'.outline_color = White /\ pc' # "idle")
      ]_vars

\* The colour the claim gives a well-formed literal: RRGGBB is opaque, AARRGGBB has
\* alpha AA.
LiteralColor(a) ==
    IF Len(a) = 6
    THEN <<ByteAt(a, 1), ByteAt(a, 3), ByteAt(a, 5), 255>>
    ELSE <<ByteAt(a, 3), ByteAt(a, 5), ByteAt(a, 7), ByteAt(a, 1)>>

\* C9 (as claimed): an unregistered RRGGBB resolves to (RR, GG, BB, 255) and an
\* unregistered AARRGGBB to (RR, GG, BB, AA).
C9_HexLiteral ==
    [][ (AtTag(W_fill_color) /\ TagArg(_source, it) \notin DOMAIN _colors
            /\ WellFormedHex(TagArg(_source, it)))
          => current_format'.fill_color = LiteralColor(TagArg(_source, it)) ]_vars

(***************************************************************************)
(* SpecText: sources that select a font and then mix text, a toggle, an    *)
(* escaped bracket, a stray closing bracket, newlines and a tag that holds *)
(* a newline.                                                              *)
(***************************************************************************)
TextPieces ==
    { <<"a">>, <<"*">>, <<BSLASH, "[">>, <<"]">>, <<NL>>, Tag(<<"x">>, <<NL>>) }

TextSources == {Tag(W_font, F_f) \o s : s \in SourcesOf(TextPieces, MaxLayoutPieces)}

\* One object is constructed and then laid out again at its size.
NextText ==
    \/ \E s \in TextSources, f \in Frames : ~exists /\ Construct(s, 1, f)
    \/ \E f \in Frames : SetCharacterSize(_character_size, f)
    \/ Scan
    \/ Layout

SpecText == Init /\ [][NextText]_vars

\* The number of newlines of s at the indices i .. to - 1 that are neither escaped
\* nor inside a tag.
RECURSIVE LineBreaks(_, _, _)
LineBreaks(s, i, to) ==
    IF i >= to THEN 0
    ELSE IF s[i] = BSLASH THEN LineBreaks(s, i + 2, to)
    ELSE IF s[i] = "[" THEN LineBreaks(s, TagEnd(s, i) + 1, to)
    ELSE (IF s[i] = NL THEN 1 ELSE 0) + LineBreaks(s, i + 1, to)

\* C13: a newline that is neither escaped nor inside a tag leaves the lines before
\* it and the style cursor as they are and adds one line that holds exactly one
\* empty run in the style of the cursor; the number of lines is 1 plus the number
\* of such newlines read so far.
C13_Newline ==
    [][ /\ Reading(NL) =>
              /\ Len(lines') = Len(lines) + 1
              /\ \A k \in 1 .. Len(lines) : lines'[k] = lines[k]
              /\ Last(lines').chunks = <<[format |-> current_format, text |-> <<>>]>>
              /\ current_format' = current_format
        /\ pc' \in {"scan", "layout"} => Len(lines') = 1 + LineBreaks(_source', 1, it')
      ]_vars

\* C13 witness: a newline was read under a bold cursor with the font f: the second
\* line is one empty run in that style, and the tag before it held a newline that
\* started no line.
C13_Witness ==
    /\ pc = "layout"
    /\ _source = Tag(W_font, F_f) \o Tag(<<"x">>, <<NL>>) \o <<"*">> \o <<NL>>
    /\ Len(lines) = 2
    /\ lines[2].chunks = <<[format |-> current_format, text |-> <<>>]>>
    /\ current_format.font = <<F_f>>
    /\ current_format.style_flags = {"Bold"}

\* The source s from index i on, with every tag and every unescaped toggle
\* character removed and every escape replaced by the code point it escapes.
RECURSIVE Stripped(_, _)
Stripped(s, i) ==
    IF i > Len(s) THEN <<>>
    ELSE IF s[i] \in {"/", "*", "_", "~"} THEN Stripped(s, i + 1)
    ELSE IF s[i] = "[" THEN Stripped(s, TagEnd(s, i) + 1)
    ELSE IF s[i] = BSLASH THEN <<s[i + 1]>> \o Stripped(s, i + 2)
    ELSE <<s[i]>> \o Stripped(s, i + 1)

\* The texts of the positioned runs ts from the n-th on, as one text.
RECURSIVE RunTexts(_, _)
RunTexts(ts, n) == IF n > Len(ts) THEN <<>> ELSE ts[n].text \o RunTexts(ts, n + 1)

\* The text of line k: the texts of its positioned runs, in order.
LineText(k) == RunTexts(SubSeq(_texts, FirstRun(k), FirstRun(k) + Len(lines[k].chunks) - 1), 1)

\* The texts of the lines k .. Len(lines), with one newline between consecutive lines.
RECURSIVE JoinedFrom(_)
JoinedFrom(k) ==
    IF k = Len(lines) THEN LineText(k) ELSE LineText(k) \o <<NL>> \o JoinedFrom(k + 1)

\* C18: when set_source returns normally, the texts of the positioned runs, in
\* order and with one newline between consecutive lines, are the source with every
\* tag and every unescaped toggle character removed and every escape replaced by
\* the code point it escapes; every line's runs are positioned.
C18_TextPreserved ==
    [][ (pc = "layout" /\ pc' = "idle" /\ err' = "none") =>
          /\ _texts' = _texts
          /\ Len(_texts) = FirstRun(Len(lines)) + Len(Last(lines).chunks) - 1
          /\ JoinedFrom(1) = Stripped(_source, 1)
      ]_vars

\* C18 witness: an escaped bracket, a newline and a stray closing bracket were laid
\* out as the run "[" on the first and the run "]" on a second line.
C18_Witness ==
    /\ pc = "idle"
    /\ exists
    /\ err = "none"
    /\ _source = Tag(W_font, F_f) \o <<BSLASH, "[", NL, "]">>
    /\ Len(_texts) = 2
    /\ _texts[1].text = <<"[">>
    /\ _texts[2].text = <<"]">>
    /\ _texts[2].position[2] > _texts[1].position[2]

(***************************************************************************)
(* SpecTag: sources made of tags: style tags that repeat the cursor's      *)
(* value, align tags, a tag of an unknown command and tags without a       *)
(* space, with text and newlines between them.                             *)
(***************************************************************************)
N_white == <<"w","h","i","t","e">>

TagPieces ==
    { <<"a">>, <<NL>>, Tag(W_font, F_f), Tag(W_fill_color, N_white),
      Tag(W_outline_thickness, <<"0">>), Tag(W_align, W_left), Tag(W_align, W_center),
      Tag(W_align, W_right), Tag(<<"x">>, <<"y">>), <<"[", "]">>, <<"[", "b", "]">> }

\* An align tag on each of two lines.
Ex_two_aligns == Tag(W_align, W_center) \o <<NL>> \o Tag(W_align, W_right)

TagSources == SourcesOf(TagPieces, MaxPieces) \cup {Ex_two_aligns}

\* One object is constructed (again after a constructor that threw) and then laid
\* out again at its size.
NextTag ==
    \/ \E s \in TagSources, f \in Frames : ~exists /\ Construct(s, 1, f)
    \/ \E f \in Frames : SetCharacterSize(_character_size, f)
    \/ Scan
    \/ Layout

SpecTag == Init /\ [][NextTag]_vars

\* C14 (as claimed): within a line no two adjacent runs carry identical style, and a
\* toggle or style tag that leaves the style cursor's value unchanged adds no run,
\* also when the current run has text.
C14_MaximalRuns ==
    [][ /\ pc' \in {"scan", "layout"} =>
              \A l \in 1 .. Len(lines') : \A k \in 1 .. Len(lines'[l].chunks) - 1 :
                  lines'[l].chunks[k].format # lines'[l].chunks[k + 1].format
        /\ (AtStyleChange /\ pc' \in {"scan", "layout"} /\ current_format' = current_format)
              => Len(Last(lines').chunks) = Len(Last(lines).chunks)
      ]_vars

\* An align tag stands in s at the indices i .. to - 1 on the line that is current
\* at the index to, outside escapes and other tags; seen tells whether one was found
\* on the line so far.
RECURSIVE AlignTagOnLine(_, _, _, _)
AlignTagOnLine(s, i, to, seen) ==
    IF i >= to THEN seen
    ELSE IF s[i] = BSLASH THEN AlignTagOnLine(s, i + 2, to, seen)
    ELSE IF s[i] = NL THEN AlignTagOnLine(s, i + 1, to, FALSE)
    ELSE IF s[i] = "["
    THEN AlignTagOnLine(s, TagEnd(s, i) + 1, to, seen \/ TagCommand(s, i) = W_align)
    ELSE AlignTagOnLine(s, i + 1, to, seen)

\* The alignment an argument of the align tag names.
AlignmentNamed(arg) ==
    CASE arg = W_left -> "left"
      [] arg = W_center -> "center"
      [] arg = W_right -> "right"
      [] OTHER -> "invalid"

\* A scan step that went on changed the alignment of no line before the current one.
EarlierLinesKeepAlignment ==
    \A k \in 1 .. Len(lines) - 1 : lines'[k].alignment = lines[k].alignment

\* C15 (as claimed): an align tag on a line that has already received an align tag
\* leaves the line's alignment as it is; an align tag changes the alignment of no
\* earlier line, and a line starts left-aligned whatever the lines before it are.
C15_FirstAlignTagWins ==
    [][ (pc = "scan" /\ pc' \in {"scan", "layout"}) =>
          /\ EarlierLinesKeepAlignment
          /\ (AtTag(W_align) /\ AlignTagOnLine(_source, 1, it, FALSE))
                => Last(lines').alignment = Last(lines).alignment
          /\ Reading(NL) => Last(lines').alignment = "left"
      ]_vars

\* C15 (amended): every align tag sets the alignment of the line it appears on, so
\* the last align tag of a line decides; no other step changes an alignment, no
\* align tag changes the alignment of an earlier line, and a line starts
\* left-aligned whatever the lines before it are.
C15_LastAlignTagWins ==
    [][ (pc = "scan" /\ pc' \in {"scan", "layout"}) =>
          /\ EarlierLinesKeepAlignment
          /\ IF AtTag(W_align)
             THEN /\ Len(lines') = Len(lines)
                  /\ Last(lines').alignment = AlignmentNamed(TagArg(_source, it))
             ELSE IF Reading(NL)
             THEN /\ lines'[Len(lines)].alignment = Last(lines).alignment
                  /\ Last(lines').alignment = "left"
             ELSE /\ Len(lines') = Len(lines)
                  /\ Last(lines').alignment = Last(lines).alignment
      ]_vars

\* C15 witness: the second line took the alignment of its own align tag and the first
\* line kept the one it had.
C15_Witness ==
    /\ pc = "layout"
    /\ _source = Ex_two_aligns
    /\ Len(lines) = 2
    /\ lines[1].alignment = "center"
    /\ lines[2].alignment = "right"

\* The scan loop is about to read a terminated tag with an argument whose command
\* is none of the five commands.
AtUnknownTag ==
    /\ Reading("[")
    /\ TagEnd(_source, it) <= Len(_source)
    /\ CommandEnd(_source, it) < TagEnd(_source, it)
    /\ TagCommand(_source, it) \notin
          {W_fill_color, W_outline_color, W_outline_thickness, W_font, W_align}

\* C16: a terminated tag with an argument whose command is none of fill-color,
\* outline-color, outline-thickness, font, align raises no error, leaves the style
\* cursor and the lines (their runs, texts and alignments) as they are, and the
\* scan goes on behind its ']'.
C16_UnknownTagIgnored ==
    [][ AtUnknownTag =>
          /\ pc' \in {"scan", "layout"}
          /\ err' = "none"
          /\ current_format' = current_format
          /\ lines' = lines
          /\ it' = TagEnd(_source, it) + 1
      ]_vars

\* C16 witness: "a[x y]" has been scanned to its end and holds the one run "a".
C16_Witness ==
    /\ pc = "layout"
    /\ _source = <<"a">> \o Tag(<<"x">>, <<"y">>)
    /\ prev.c = "["
    /\ prev.at = 2
    /\ Len(lines) = 1
    /\ Len(lines[1].chunks) = 1
    /\ lines[1].chunks[1].text = <<"a">>

\* The scan loop is about to read a terminated tag whose body holds no space.
AtTagWithoutSpace ==
    /\ Reading("[")
    /\ TagEnd(_source, it) <= Len(_source)
    /\ CommandEnd(_source, it) = TagEnd(_source, it)

\* C17 (as claimed): a terminated tag without a space is handled as its command with
\* an empty argument: the argument range does not begin behind the ']', no error is
\* raised and the scan goes on behind the ']'.
C17_TagWithoutSpace ==
    [][ AtTagWithoutSpace =>
          /\ CommandEnd(_source, it) + 1 <= TagEnd(_source, it)
          /\ pc' \in {"scan", "layout"}
          /\ err' = "none"
          /\ it' = TagEnd(_source, it) + 1
      ]_vars

(***************************************************************************)
(* SpecRerun: one source is laid out, and then laid out again, unchanged,  *)
(* in a second object, by set_source or by set_character_size.             *)
(***************************************************************************)
RerunSources == LayoutSources \cup Examples

FirstConstruct(s, n, f) == first.state = "none" /\ Construct(s, n, f)

Reconstruct(f) == first.state = "set" /\ Construct(first.source, first.size, f)

Reset(f) == first.state = "set" /\ SetSource(first.source, f)

Resize(f) == first.state = "set" /\ SetCharacterSize(first.size, f)

NextRerun ==
    \/ \E s \in RerunSources, n \in 1 .. MaxCharSize, f \in Frames : FirstConstruct(s, n, f)
    \/ \E f \in Frames : Reconstruct(f)
    \/ \E f \in Frames : Reset(f)
    \/ \E f \in Frames : Resize(f)
    \/ Scan
    \/ Layout

SpecRerun == InitWith(TRUE) /\ [][NextRerun]_vars

\* C1 (as claimed): once a source has been laid out, every later set_source of the
\* same source at the same size, with the colour table unchanged, ends with the
\* same positioned runs and the same bounds.
C1_Deterministic ==
    (first.state = "set" /\ pc = "idle" /\ _colors = first.colors) =>
        /\ err = "none"
        /\ exists
        /\ _source = first.source
        /\ _character_size = first.size
        /\ _texts = first.texts
        /\ _bounds = first.bounds

====
